---- MODULE Spec2Model ----
(***************************************************************************)
(* A model of the movie recommendation engines of this repository:         *)
(*   KNNMovieRecommender           (CFRS.py)                               *)
(*   CFMovieRecommender            (CFRS_n.py)                             *)
(*   MultilingualMovieRecommender  (CBFRS.py)                              *)
(*   ImprovedHybridRecommender     (HybridRS.py)                           *)
(* Each engine object is one record-valued variable whose fields carry the *)
(* names of the object's attributes; ret is the outcome of the last call.  *)
(* Every engine has its own specification (SpecKNN, SpecCF, SpecContent,   *)
(* SpecHybrid); the engines it does not exercise stay Idle.                *)
(*                                                                         *)
(* Numbers.  Python floats are modelled exactly: a mean is a reduced       *)
(* fraction [num, den]; a cosine is [num, rad], standing for num/sqrt(rad) *)
(* and compared by cross-multiplying squares; content scores and hybrid    *)
(* weights are fixed-point integers.                                       *)
(*                                                                         *)
(* Library calls whose result the library leaves open (the order of equal  *)
(* keys in NearestNeighbors.kneighbors and in numpy argsort) are modelled  *)
(* as a choice over every order the library may return.                    *)
(***************************************************************************)
EXTENDS Integers, Sequences, FiniteSets, TLC

VARIABLES knn, cf, cb, hy, ret

vars == <<knn, cf, cb, hy, ret>>

\* An engine that the running specification does not construct.
Idle == [idle |-> TRUE]

\* Python's None, and an optional number: None or a value.
None == "None"
NoValue == <<>>
Some(x) == <<x>>
IsNone(o) == o = <<>>
Val(o) == o[1]

\* The outcome of a call: it returns a value or raises an exception.
Returned(op, arg, v) == [op |-> op, arg |-> arg, outcome |-> "return", value |-> v, error |-> None]
Raised(op, arg, e) == [op |-> op, arg |-> arg, outcome |-> "raise", value |-> None, error |-> e]
NoCall == [op |-> "construct", arg |-> None, outcome |-> "return", value |-> None, error |-> None]

----------------------------------------------------------------------------
(* Generic helpers *)

Max2(a, b) == IF a >= b THEN a ELSE b
Min2(a, b) == IF a <= b THEN a ELSE b
Abs(x) == IF x < 0 THEN -x ELSE x

SetMin(S) == CHOOSE x \in S : \A y \in S : x <= y
SetMax(S) == CHOOSE x \in S : \A y \in S : x >= y

RECURSIVE GCD(_, _)
GCD(a, b) == IF b = 0 THEN a ELSE GCD(b, a % b)

\* The fraction n/d (d > 0) in lowest terms.
Frac(n, d) == LET g == GCD(n, d) IN [num |-> n \div g, den |-> d \div g]
FracGeq(f, g) == f.num * g.den >= g.num * f.den

RECURSIVE SumSeq(_)
SumSeq(s) == IF s = <<>> THEN 0 ELSE Head(s) + SumSeq(Tail(s))

Range(s) == {s[i] : i \in DOMAIN s}

\* pandas Series.unique(): the distinct values in order of first appearance.
RECURSIVE Unique(_)
Unique(s) ==
    IF s = <<>> THEN <<>>
    ELSE LET u == Unique(SubSeq(s, 1, Len(s) - 1))
             x == s[Len(s)]
         IN IF x \in Range(u) THEN u ELSE Append(u, x)

\* Position (1-based) of x in a sequence without repetitions.
IndexOf(s, x) == CHOOSE i \in DOMAIN s : s[i] = x

\* All sequences over S of length 0..n.
SeqsUpTo(S, n) == UNION {[1..k -> S] : k \in 0..n}

\* All sequences of length k of distinct elements of S.
InjSeqs(S, k) == {s \in [1..k -> S] : \A i, j \in 1..k : i # j => s[i] # s[j]}

----------------------------------------------------------------------------
(* Strings of digits: a movie id of CFRS.py is a str; it is modelled as the  *)
(* sequence of its digits, ordered as Python orders str (lexicographically). *)

StrLess(a, b) ==
    \E i \in 1..Len(b) :
        /\ i <= Len(a) + 1
        /\ \A j \in 1..(i - 1) : a[j] = b[j]
        /\ (i = Len(a) + 1 \/ a[i] < b[i])

\* str.zfill(width): zeros on the left up to the width.
RECURSIVE zfill(_, _)
zfill(s, width) == IF Len(s) >= width THEN s ELSE zfill(<<0>> \o s, width)

\* sorted(S) for a set of str.
SortedStrs_descending(S) ==
    CHOOSE s \in InjSeqs(S, Cardinality(S)) :
        \A i \in 1..(Len(s) - 1) : StrLess(s[i + 1], s[i])
SortedStrs(S) ==
    CHOOSE s \in InjSeqs(S, Cardinality(S)) :
        \A i \in 1..(Len(s) - 1) : StrLess(s[i], s[i + 1])

\* sorted(S) for a set of int (pandas category codes, groupby index).
SortedInts(S) ==
    CHOOSE s \in InjSeqs(S, Cardinality(S)) :
        \A i \in 1..(Len(s) - 1) : s[i] < s[i + 1]

----------------------------------------------------------------------------
(* Titles: a str is modelled as the sequence of its code points (ASCII), so  *)
(* that case folding, splitting, searching and difflib's matching are        *)
(* computed on the characters.  StrLess orders such sequences as Python      *)
(* orders str.                                                               *)

\* str.lower()
lower(s) == [i \in DOMAIN s |-> IF s[i] >= 65 /\ s[i] <= 90 THEN s[i] + 32 ELSE s[i]]

\* The positions (1-based) where sep occurs in s.
Occurrences(s, sep) ==
    {i \in 1..(Len(s) - Len(sep) + 1) : SubSeq(s, i, i + Len(sep) - 1) = sep}

\* s.rsplit(sep, 1)[0]: what precedes the last occurrence of sep, or all of s.
rsplit_head(s, sep) ==
    IF Occurrences(s, sep) = {} THEN s
    ELSE SubSeq(s, 1, SetMax(Occurrences(s, sep)) - 1)

\* Series.str.contains(pat) for one cell and a pattern without regular
\* expression metacharacters: pat occurs in s.
str_contains(s, pat) == Occurrences(s, pat) # {}

\* The length of the longest common run of a from i and b from j, within
\* a[..ahi] and b[..bhi].
RECURSIVE MatchLen(_, _, _, _, _, _)
MatchLen(a, i, ahi, b, j, bhi) ==
    IF i > ahi \/ j > bhi THEN 0
    ELSE IF a[i] # b[j] THEN 0
    ELSE 1 + MatchLen(a, i + 1, ahi, b, j + 1, bhi)

\* difflib.SequenceMatcher.find_longest_match (no junk): the longest block
\* common to a[alo..ahi] and b[blo..bhi]; of the longest blocks the one that
\* starts earliest in a, and of those the one that starts earliest in b.
find_longest_match(a, alo, ahi, b, blo, bhi) ==
    LET run == [p \in (alo..ahi) \X (blo..bhi) |-> MatchLen(a, p[1], ahi, b, p[2], bhi)]
        size == SetMax({run[p] : p \in DOMAIN run})
        besti == SetMin({p[1] : p \in {q \in DOMAIN run : run[q] = size}})
        bestj == SetMin({j \in blo..bhi : run[<<besti, j>>] = size})
    IN [a |-> besti, b |-> bestj, size |-> size]

\* The total size of SequenceMatcher.get_matching_blocks(): the longest block,
\* then the same to its left and to its right.
RECURSIVE matching_size(_, _, _, _, _, _)
matching_size(a, alo, ahi, b, blo, bhi) ==
    IF alo > ahi \/ blo > bhi THEN 0
    ELSE LET m == find_longest_match(a, alo, ahi, b, blo, bhi)
         IN IF m.size = 0 THEN 0
            ELSE m.size
                 + matching_size(a, alo, m.a - 1, b, blo, m.b - 1)
                 + matching_size(a, m.a + m.size, ahi, b, m.b + m.size, bhi)

\* SequenceMatcher(None, a, b).ratio() = 2.0 * matches / (len(a) + len(b)),
\* and 1.0 for two empty strings; as a fraction.
ratio(a, b) ==
    IF Len(a) + Len(b) = 0 THEN Frac(1, 1)
    ELSE Frac(2 * matching_size(a, 1, Len(a), b, 1, Len(b)), Len(a) + Len(b))

\* difflib.get_close_matches(word, possibilities, n, cutoff): the
\* possibilities x with ratio(x, word) >= cutoff, the best n of them, in
\* descending order of (ratio, x) as heapq.nlargest orders the pairs.
get_close_matches(word, possibilities, n, cutoff) ==
    LET score == [x \in Range(possibilities) |-> ratio(x, word)]
        close == {x \in Range(possibilities) : FracGeq(score[x], cutoff)}
        Before(x, y) ==
            \/ ~FracGeq(score[y], score[x])
            \/ (score[x] = score[y] /\ StrLess(y, x))
        ordered == CHOOSE s \in InjSeqs(close, Cardinality(close)) :
                      \A i \in 1..(Len(s) - 1) : Before(s[i], s[i + 1])
    IN SubSeq(ordered, 1, Min2(n, Len(ordered)))

\* The titles of the sample data.
Alien == <<65, 108, 105, 101, 110>>
Aliens == <<65, 108, 105, 101, 110, 115>>
Heat == <<72, 101, 97, 116>>
Big == <<66, 105, 103>>
\* " (1979)", the year part of a catalogue title, and " (", where it starts.
YearPart == <<32, 40, 49, 57, 55, 57, 41>>
YearSep == <<32, 40>>

----------------------------------------------------------------------------
(* Sparse matrices and the cosine neighbour search *)

\* scipy csr_matrix((data, (rows, cols)), shape=(nr, nc)): cell (r, c) holds
\* the SUM of the data of every triple placed at (r, c); absent cells are 0.
RECURSIVE CellSum(_, _, _)
CellSum(triples, r, c) ==
    IF triples = <<>> THEN 0
    ELSE (IF Head(triples).row = r /\ Head(triples).col = c
          THEN Head(triples).data ELSE 0) + CellSum(Tail(triples), r, c)

csr_matrix(triples, nr, nc) ==
    [r \in 0..(nr - 1) |-> [c \in 0..(nc - 1) |-> CellSum(triples, r, c)]]

NumRows(m) == Cardinality(DOMAIN m)
NumCols(m) == IF NumRows(m) = 0 THEN 0 ELSE Cardinality(DOMAIN m[0])

RECURSIVE DotUpTo(_, _, _)
DotUpTo(a, b, n) == IF n = 0 THEN 0 ELSE a[n - 1] * b[n - 1] + DotUpTo(a, b, n - 1)
Dot(a, b) == DotUpTo(a, b, Cardinality(DOMAIN a))

\* Cosine of two non-negative rows as num/sqrt(rad); sklearn normalises each
\* row and leaves an all-zero row as it is, so its cosine with any row is 0.
Cosine(a, b) ==
    IF Dot(a, a) = 0 \/ Dot(b, b) = 0 THEN [num |-> 0, rad |-> 1]
    ELSE [num |-> Dot(a, b), rad |-> Dot(a, a) * Dot(b, b)]

\* x >= y for two cosines (both non-negative).
CosGeq(x, y) == x.num * x.num * y.rad >= y.num * y.num * x.rad
CosEq(x, y) == CosGeq(x, y) /\ CosGeq(y, x)

\* NearestNeighbors(metric='cosine', algorithm='brute').kneighbors(q, k) on the
\* fitted rows fitX: every answer the library may give, as a sequence of k
\* distinct row indices in order of increasing distance 1 - cosine; rows at
\* equal distance come in any order, and any of them may fill the last places.
kneighbors(fitX, q, k) ==
    LET sim(r) == Cosine(q, fitX[r])
    IN {s \in InjSeqs(DOMAIN fitX, k) :
          /\ \A i \in 1..(k - 1) : CosGeq(sim(s[i]), sim(s[i + 1]))
          /\ \A r \in DOMAIN fitX \ Range(s) :
                \A i \in 1..k : CosGeq(sim(s[i]), sim(r))}

----------------------------------------------------------------------------
(* KNNMovieRecommender (CFRS.py) *)

\* The rating data the constructor is given: every sequence of at most
\* MaxRatings records drawn from RatingRecords (two users, three movies, a
\* repeated (user, movie) pair with two values, rows that are proportional).
MaxRatings == 3
Rating(u, m, r) == [user_id |-> u, movie_id |-> m, rating |-> r]
\* The movie ids of the lines of a ratings file: '10', an id written in its
\* fixed-width form '0000002' (ShortIdStr is its short form '2'), and 't3', an
\* id that is not a number (10 stands for the letter, which Python orders after
\* every digit).
PaddedIdStr == <<0, 0, 0, 0, 0, 0, 2>>
ShortIdStr == <<2>>
MovieIdStrs == {<<1, 0>>, PaddedIdStr, <<10, 3>>}
RatingRecords ==
    {Rating(1, <<1, 0>>, 5), Rating(2, <<1, 0>>, 4),
     Rating(1, PaddedIdStr, 3), Rating(1, PaddedIdStr, 5),
     Rating(1, <<10, 3>>, 4), Rating(2, <<10, 3>>, 4)}

\* str(int(s)) for a str of digits: the leading zeros go.
RECURSIVE int_str(_)
int_str(s) == IF Len(s) > 1 /\ s[1] = 0 THEN int_str(Tail(s)) ELSE s

\* pd.read_csv(...) and astype(str): a movie_id column whose every value is a
\* number is read as integers, so each id comes back as str(int(id)); a column
\* with a value that is not a number keeps every id as it is written.
load_ratings(records) ==
    IF \A i \in DOMAIN records : \A j \in DOMAIN records[i].movie_id :
           records[i].movie_id[j] \in 0..9
    THEN [i \in DOMAIN records |->
             [records[i] EXCEPT !.movie_id = int_str(records[i].movie_id)]]
    ELSE records
NeighborChoices == {1, 2}
MinRatingsChoices == {1, 2}

\* The rows of ratings_df for one movie, and a column of a frame.
RatingsOf(ratings_df, m) == SelectSeq(ratings_df, LAMBDA r : r.movie_id = m)
Column(df, name) == [i \in DOMAIN df |-> df[i][name]]

\* ratings_df.groupby('movie_id').agg({'rating': ['count', 'mean']})
group_stats(ratings_df) ==
    [m \in Range(Column(ratings_df, "movie_id")) |->
        LET rs == Column(RatingsOf(ratings_df, m), "rating")
        IN [count |-> Len(rs), mean_rating |-> Frac(SumSeq(rs), Len(rs))]]

\* The (row, col, data) triples handed to csr_matrix.
Triples(ratings_filtered, movie_mapping, user_mapping) ==
    [i \in DOMAIN ratings_filtered |->
        [row |-> movie_mapping[ratings_filtered[i].movie_id],
         col |-> user_mapping[ratings_filtered[i].user_id],
         data |-> ratings_filtered[i].rating]]

\* {x: idx for idx, x in enumerate(seq)}
Enumerate(seq) == [x \in Range(seq) |-> IndexOf(seq, x) - 1]

\* movie_stats[movie_stats['count'] >= min_ratings].index
popular_movies_strict(movie_stats, min_ratings) ==
    {m \in DOMAIN movie_stats : movie_stats[m].count > min_ratings}
popular_movies_of(movie_stats, min_ratings) ==
    {m \in DOMAIN movie_stats : movie_stats[m].count >= min_ratings}

KNN_prepare_data(self) ==
    LET movie_stats == group_stats(self.ratings_df)
        popular_movies == popular_movies_of(movie_stats, self.min_ratings)
        ratings_filtered == SelectSeq(self.ratings_df, LAMBDA r : r.movie_id \in popular_movies)
        unique_users == Unique(Column(ratings_filtered, "user_id"))
        unique_movies == SortedStrs(popular_movies)
        user_mapping == Enumerate(unique_users)
        movie_mapping == Enumerate(unique_movies)
    IN [self EXCEPT
          !.movie_stats = movie_stats,
          !.all_movie_ids = DOMAIN movie_stats,
          !.user_mapping = user_mapping,
          !.movie_mapping = movie_mapping,
          !.reverse_movie_mapping =
              [i \in {movie_mapping[m] : m \in DOMAIN movie_mapping} |->
                  CHOOSE m \in DOMAIN movie_mapping : movie_mapping[m] = i],
          !.movie_user_matrix =
              csr_matrix(Triples(ratings_filtered, movie_mapping, user_mapping),
                         Len(unique_movies), Len(unique_users))]

\* NearestNeighbors(n_neighbors = min(n_neighbors + 1, rows)).fit(matrix)
KNN_train_model(self) ==
    [self EXCEPT !.knn_model =
        [n_neighbors |-> Min2(self.n_neighbors + 1, NumRows(self.movie_user_matrix)),
         fit_X |-> self.movie_user_matrix]]

\* fit raises ValueError on a matrix without rows (n_neighbors would be 0),
\* and then __init__ raises: no object exists.
KNN_train_raises(self) == NumRows(self.movie_user_matrix) = 0

KNN_init(ratings_path, n_neighbors, min_ratings) ==
    KNN_train_model(KNN_prepare_data(
        [n_neighbors |-> n_neighbors, min_ratings |-> min_ratings,
         ratings_df |-> load_ratings(ratings_path),
         movie_user_matrix |-> None, user_mapping |-> None, movie_mapping |-> None,
         reverse_movie_mapping |-> None, movie_stats |-> None, all_movie_ids |-> None,
         knn_model |-> None]))

standardize_movie_id_exact(self, movie_id) ==
    movie_id

standardize_movie_id(self, movie_id) ==
    IF movie_id \in self.all_movie_ids THEN movie_id
    ELSE IF zfill(movie_id, 7) \in self.all_movie_ids THEN zfill(movie_id, 7)
    ELSE movie_id

\* list.sort(key=similarity, reverse=True): stable, equal keys keep their order.
InsertDesc(sorted, x) ==
    LET p == Cardinality({i \in DOMAIN sorted : CosGeq(sorted[i].similarity, x.similarity)})
    IN SubSeq(sorted, 1, p) \o <<x>> \o SubSeq(sorted, p + 1, Len(sorted))

RECURSIVE SortBySimilarityDesc(_)
SortBySimilarityDesc(s) ==
    IF s = <<>> THEN <<>>
    ELSE InsertDesc(SortBySimilarityDesc(SubSeq(s, 1, Len(s) - 1)), s[Len(s)])

\* s[:n]
Take(s, n) == SubSeq(s, 1, Min2(n, Len(s)))

\* The neighbours kept if the first one were not dropped.
KNN_kept_all(indices) == indices
\* The neighbours kept from one kneighbors answer: indices.flatten()[1:].
KNN_kept(indices) == Tail(indices)

\* The list get_movie_recommendations builds from one kneighbors answer.
KNN_recommendations_from(self, movie_idx, indices, n_recommendations, min_rating) ==
    LET q == self.movie_user_matrix[movie_idx]
        kept == KNN_kept(indices)
        all == [i \in DOMAIN kept |->
                  LET rec_movie_id == self.reverse_movie_mapping[kept[i]]
                  IN [movie_id |-> rec_movie_id,
                      similarity |-> Cosine(q, self.knn_model.fit_X[kept[i]]),
                      avg_rating |-> self.movie_stats[rec_movie_id].mean_rating,
                      num_ratings |-> self.movie_stats[rec_movie_id].count]]
        recommendations ==
            SelectSeq(all, LAMBDA r :
                IsNone(min_rating) \/ FracGeq(r.avg_rating, Frac(Val(min_rating), 1)))
    IN Take(SortBySimilarityDesc(recommendations), n_recommendations)

\* Every value get_movie_recommendations may return.
KNN_recommendations(self, movie_id_in, n_recommendations, min_rating) ==
    LET movie_id == standardize_movie_id(self, movie_id_in)
    IN IF movie_id \notin self.all_movie_ids THEN {<<>>}
       ELSE IF movie_id \notin DOMAIN self.movie_mapping THEN {<<>>}
       ELSE LET movie_idx == self.movie_mapping[movie_id]
            IN {KNN_recommendations_from(self, movie_idx, indices,
                                         n_recommendations, min_rating) :
                   indices \in kneighbors(self.knn_model.fit_X,
                                          self.movie_user_matrix[movie_idx],
                                          self.knn_model.n_neighbors)}

KNN_movie_details(self, movie_id_in) ==
    LET movie_id == standardize_movie_id(self, movie_id_in)
    IN IF movie_id \notin self.all_movie_ids THEN NoValue
       ELSE [movie_id |-> movie_id,
             average_rating |-> self.movie_stats[movie_id].mean_rating,
             number_of_ratings |-> self.movie_stats[movie_id].count,
             included_in_model |-> movie_id \in DOMAIN self.movie_mapping]

\* Arguments of the queries.
UnknownIdStr == <<9>>
QueryIdStrs == MovieIdStrs \cup {ShortIdStr, UnknownIdStr}
NRecChoices == {1, 2}
MinRatingChoices == {NoValue, Some(4)}

InitKNN ==
    /\ \E ratings_path \in SeqsUpTo(RatingRecords, MaxRatings),
          n_neighbors \in NeighborChoices, min_ratings \in MinRatingsChoices :
          LET self == KNN_init(ratings_path, n_neighbors, min_ratings)
          IN /\ ~KNN_train_raises(self)
             /\ knn = self
    /\ cf = Idle /\ cb = Idle /\ hy = Idle
    /\ ret = NoCall

KNN_get_movie_recommendations ==
    /\ \E movie_id \in QueryIdStrs, n \in NRecChoices, min_rating \in MinRatingChoices :
          \E v \in KNN_recommendations(knn, movie_id, n, min_rating) :
              ret' = Returned("knn.get_movie_recommendations",
                              [movie_id |-> movie_id, n_recommendations |-> n,
                               min_rating |-> min_rating], v)
    /\ UNCHANGED <<knn, cf, cb, hy>>

KNN_get_movie_details ==
    /\ \E movie_id \in QueryIdStrs :
          ret' = Returned("knn.get_movie_details", [movie_id |-> movie_id],
                          KNN_movie_details(knn, movie_id))
    /\ UNCHANGED <<knn, cf, cb, hy>>

NextKNN == KNN_get_movie_recommendations \/ KNN_get_movie_details

SpecKNN == InitKNN /\ [][NextKNN]_vars

----------------------------------------------------------------------------
(* CFMovieRecommender (CFRS_n.py) *)

\* A dict keeps its keys in insertion order: a sequence of <<key, value>>.
DictKeys(d) == [i \in DOMAIN d |-> d[i][1]]
DictHas(d, k) == \E i \in DOMAIN d : d[i][1] = k
DictGet(d, k) == d[CHOOSE i \in DOMAIN d : d[i][1] = k][2]
\* d.get(k, default)
DictGetOr(d, k, default) == IF DictHas(d, k) THEN DictGet(d, k) ELSE default
\* d[k] = v: a new key goes last, a known key keeps its place.
DictPut(d, k, v) ==
    IF DictHas(d, k) THEN [i \in DOMAIN d |-> IF d[i][1] = k THEN <<k, v>> ELSE d[i]]
    ELSE Append(d, <<k, v>>)
\* dict(zip(keys, values)): a repeated key keeps its first place and its last value.
RECURSIVE DictZip(_, _)
DictZip(keys, values) ==
    IF keys = <<>> \/ values = <<>> THEN <<>>
    ELSE LET n == Min2(Len(keys), Len(values))
         IN DictPut(DictZip(SubSeq(keys, 1, n - 1), SubSeq(values, 1, n - 1)),
                    keys[n], values[n])
\* dict(zip(keys, range(n)))
DictZipRange(keys, n) == DictZip(keys, [i \in 1..n |-> i - 1])

\* The catalogue and the rating data the constructor is given; movie ids are
\* ints here (load_dat_files does not convert them).
Movie(m, t) == [movie_id |-> m, title_year |-> t]
Catalogs ==
    {<<Movie(1, Alien \o YearPart), Movie(2, Aliens \o YearPart), Movie(3, Heat \o YearPart)>>,
     <<Movie(3, Heat), Movie(1, Alien \o YearPart)>>}
CFRatingRecords ==
    {Rating(1, 1, 5), Rating(2, 1, 4), Rating(1, 2, 3), Rating(1, 2, 5), Rating(2, 3, 4)}
CFQueryIds == {1, 2, 3, 9}
CFQueryTitles == {Aliens, Big}

\* {title_year.rsplit(' (', 1)[0].lower(): movie_id}
_create_title_mapping(movies_df) ==
    DictZip([i \in DOMAIN movies_df |-> lower(rsplit_head(movies_df[i].title_year, YearSep))],
            Column(movies_df, "movie_id"))

CF_init(movies_df, ratings_df, n_neighbers) ==
    [movies_df |-> movies_df, ratings_df |-> ratings_df, n_neighbers |-> n_neighbers,
     model |-> NoValue, movie_user_mat |-> NoValue, movie_to_idx |-> NoValue,
     title_to_id |-> _create_title_mapping(movies_df)]

\* find_movie_id(title): the (match, id) pairs of the close matches of the
\* lower-cased title among the keys, n=3, cutoff=0.6.
find_movie_id(self, title) ==
    LET matches == get_close_matches(lower(title), DictKeys(self.title_to_id), 3, Frac(6, 10))
    IN [i \in DOMAIN matches |-> <<matches[i], DictGet(self.title_to_id, matches[i])>>]

\* Series.astype('category').cat.codes: the rank of each value among the
\* distinct values of the column in ascending order.
cat_codes(column) ==
    LET cats == SortedInts(Range(column))
    IN [i \in DOMAIN column |-> IndexOf(cats, column[i]) - 1]

CF_preprocess(self, min_ratings) ==
    LET movie_ratings == [m \in Range(Column(self.ratings_df, "movie_id")) |->
                             Len(RatingsOf(self.ratings_df, m))]
        valid_movies == {m \in DOMAIN movie_ratings : movie_ratings[m] >= min_ratings}
        filtered_ratings == SelectSeq(self.ratings_df, LAMBDA r : r.movie_id \in valid_movies)
        rows == cat_codes(Column(filtered_ratings, "movie_id"))
        cols == cat_codes(Column(filtered_ratings, "user_id"))
    IN [self EXCEPT
          !.movie_to_idx = Some(DictZipRange(Unique(Column(filtered_ratings, "movie_id")),
                                             Cardinality(valid_movies))),
          !.movie_user_mat =
              Some(csr_matrix([i \in DOMAIN filtered_ratings |->
                                  [row |-> rows[i], col |-> cols[i],
                                   data |-> filtered_ratings[i].rating]],
                              Cardinality(valid_movies),
                              Len(Unique(Column(filtered_ratings, "user_id")))))]

\* fit: self.model is bound to a new estimator first; estimator.fit raises on
\* None and on a matrix without rows, and the estimator then stays unfitted.
CF_fit_raises(self) ==
    IsNone(self.movie_user_mat) \/ NumRows(Val(self.movie_user_mat)) = 0

CF_fit(self) ==
    [self EXCEPT !.model =
        IF CF_fit_raises(self) THEN Some([fitted |-> FALSE, fit_X |-> <<>>])
        ELSE Some([fitted |-> TRUE, fit_X |-> Val(self.movie_user_mat)])]

\* 1 - cosine, the distance kneighbors reports, kept symbolic.
Distance(c) == [one_minus |-> c]

\* The number of neighbours recommend asks kneighbors for.
CF_n_query(self) == self.n_neighbers + 1

\* The exception recommend raises in the given state, or None.
CF_recommend_error(self, movie_id) ==
    IF IsNone(self.movie_to_idx) THEN "TypeError"
    ELSE IF ~DictHas(Val(self.movie_to_idx), movie_id) THEN None
    ELSE IF IsNone(self.model) THEN "AttributeError"
    ELSE IF ~Val(self.model).fitted THEN "NotFittedError"
    ELSE IF NumCols(Val(self.movie_user_mat)) # NumCols(Val(self.model).fit_X) THEN "ValueError"
    ELSE IF CF_n_query(self) > NumRows(Val(self.model).fit_X) THEN "ValueError"
    ELSE None

\* What recommend does with one kneighbors answer: an exception or a frame.
CF_recommend_from(self, idx, indices) ==
    LET movie_indices == DictKeys(Val(self.movie_to_idx))
        nb == Tail(indices)
        q == Val(self.movie_user_mat)[idx]
    IN IF \E i \in DOMAIN nb : nb[i] + 1 > Len(movie_indices)
       THEN [error |-> "IndexError", value |-> <<>>]
       ELSE LET similar_movies == [i \in DOMAIN nb |-> movie_indices[nb[i] + 1]]
                similarities == [i \in DOMAIN nb |->
                                    Distance(Cosine(q, Val(self.model).fit_X[nb[i]]))]
                recommendations ==
                    SelectSeq(self.movies_df, LAMBDA r : r.movie_id \in Range(similar_movies))
            IN IF Len(recommendations) # Len(similarities)
               THEN [error |-> "ValueError", value |-> <<>>]
               ELSE [error |-> None,
                     value |-> [i \in DOMAIN recommendations |->
                                   [movie_id |-> recommendations[i].movie_id,
                                    title_year |-> recommendations[i].title_year,
                                    similarity |-> similarities[i]]]]

\* Every outcome of recommend(movie_id).
CF_recommend(self, movie_id) ==
    IF CF_recommend_error(self, movie_id) # None
    THEN {[error |-> CF_recommend_error(self, movie_id), value |-> <<>>]}
    ELSE IF ~DictHas(Val(self.movie_to_idx), movie_id) THEN {[error |-> None, value |-> <<>>]}
    ELSE LET idx == DictGet(Val(self.movie_to_idx), movie_id)
         IN {CF_recommend_from(self, idx, indices) :
                indices \in kneighbors(Val(self.model).fit_X, Val(self.movie_user_mat)[idx],
                                       CF_n_query(self))}

Outcome(op, arg, o) ==
    IF o.error = None THEN Returned(op, arg, o.value) ELSE Raised(op, arg, o.error)

InitCF ==
    /\ \E movies_df \in Catalogs, ratings_df \in SeqsUpTo(CFRatingRecords, MaxRatings),
          n_neighbers \in NeighborChoices :
          cf = CF_init(movies_df, ratings_df, n_neighbers)
    /\ knn = Idle /\ cb = Idle /\ hy = Idle
    /\ ret = NoCall

CF_preprocess_call ==
    /\ \E min_ratings \in MinRatingsChoices :
          /\ cf' = CF_preprocess(cf, min_ratings)
          /\ ret' = Returned("cf.preprocess", [min_ratings |-> min_ratings], None)
    /\ UNCHANGED <<knn, cb, hy>>

CF_fit_call ==
    /\ cf' = CF_fit(cf)
    /\ ret' = IF CF_fit_raises(cf) THEN Raised("cf.fit", None, "ValueError")
              ELSE Returned("cf.fit", None, None)
    /\ UNCHANGED <<knn, cb, hy>>

CF_recommend_call ==
    /\ \E movie_id \in CFQueryIds :
          \E o \in CF_recommend(cf, movie_id) :
              ret' = Outcome("cf.recommend", [movie_id |-> movie_id], o)
    /\ UNCHANGED <<knn, cf, cb, hy>>

CF_find_movie_id_call ==
    /\ \E title \in CFQueryTitles :
          ret' = Returned("cf.find_movie_id", [title |-> title], find_movie_id(cf, title))
    /\ UNCHANGED <<knn, cf, cb, hy>>

NextCF == CF_preprocess_call \/ CF_fit_call \/ CF_recommend_call \/ CF_find_movie_id_call

SpecCF == InitCF /\ [][NextCF]_vars

----------------------------------------------------------------------------
(* MultilingualMovieRecommender (CBFRS.py) *)

text_weights_heavy ==
    [genres |-> 30, keywords |-> 15, overview |-> 15, director |-> 10,
     top_actors |-> 10, production_companies |-> 5, production_countries |-> 5]
text_weights ==
    [genres |-> 20, keywords |-> 15, overview |-> 15, director |-> 10,
     top_actors |-> 10, production_companies |-> 5, production_countries |-> 5]
numeric_weights ==
    [vote_average |-> 8, popularity |-> 5, runtime |-> 4, vote_count |-> 3]
\* The weights above are hundredths: 20 stands for 0.20.

\* A row of a TF-IDF matrix over a vocabulary of two terms, in fifths:
\* TfidfVectorizer L2-normalises each row, and the row of a text without
\* tokens is all zero.
Vec(x, y) == [c \in 0..1 |-> IF c = 0 THEN x ELSE y]
Zero == Vec(0, 0)
E1 == Vec(5, 0)
E2 == Vec(0, 5)

\* The movie tables the constructor is given: every sequence of 1..MaxRows
\* distinct rows drawn from SampleMovies (tmdb_id is unique in a table). A text
\* cell is given as its TF-IDF row; a numeric cell is a small integer (no
\* missing values). Rows A and D differ in id and title only; every text of
\* row C is empty.
MaxRows == 3
Texts(g, k, o, d, a, pc, pn) ==
    [genres |-> g, keywords |-> k, overview |-> o, director |-> d,
     top_actors |-> a, production_companies |-> pc, production_countries |-> pn]
Numbers(va, p, r, vc) ==
    [vote_average |-> va, popularity |-> p, runtime |-> r, vote_count |-> vc]
MovieRow(id, title, texts, numbers) ==
    [tmdb_id |-> id, title |-> title, texts |-> texts, numbers |-> numbers]
SampleMovies ==
    {MovieRow(101, Alien, Texts(E1, E1, E1, E1, E1, E1, E1), Numbers(2, 1, 1, 2)),
     MovieRow(102, Aliens, Texts(Vec(3, 4), E2, Zero, E1, Vec(4, 3), E2, E1), Numbers(1, 0, 2, 0)),
     MovieRow(103, Heat, Texts(Zero, Zero, Zero, Zero, Zero, Zero, Zero), Numbers(0, 2, 0, 1)),
     MovieRow(104, Big, Texts(E1, E1, E1, E1, E1, E1, E1), Numbers(2, 1, 1, 2))}
MovieTables == UNION {InjSeqs(SampleMovies, n) : n \in 1..MaxRows}

\* Row i (0-based, as pandas and numpy count) of a frame.
Row(df, i) == df[i + 1]
RowIndex(df) == 0..(Len(df) - 1)

\* Similarities are fixed-point numbers: SimOne stands for 1.0.
SimOne == 25 * 2

\* MinMaxScaler().fit_transform(column): (x - min) / (max - min), a constant
\* column scaling to 0; in units of 1/SimOne.
MinMaxScale(column) ==
    LET lo == SetMin(Range(column))
        hi == SetMax(Range(column))
        span == IF hi = lo THEN 1 ELSE hi - lo
    IN [i \in 0..(Len(column) - 1) |-> ((column[i + 1] - lo) * SimOne) \div span]

prepare_features(df) ==
    [text |-> [f \in DOMAIN text_weights |->
                  [i \in RowIndex(df) |-> Row(df, i).texts[f]]],
     numeric |-> [f \in DOMAIN numeric_weights |->
                  MinMaxScale([i \in DOMAIN df |-> df[i].numbers[f]])]]

\* The movie table without one of its columns, and the columns the
\* constructor may find missing (none, a text feature, a numeric feature).
DropColumn(df, column) ==
    [i \in DOMAIN df |->
        [df[i] EXCEPT !.texts = [f \in DOMAIN @ \ {column} |-> @[f]],
                      !.numbers = [f \in DOMAIN @ \ {column} |-> @[f]]]]
MissingColumns == {NoValue, Some("genres"), Some("vote_count")}

\* self.df[feature] raises KeyError for a column the table does not have.
CB_init_raises(df) ==
    \E feature \in DOMAIN text_weights \cup DOMAIN numeric_weights :
        feature \notin DOMAIN df[1].texts \cup DOMAIN df[1].numbers

CB_init(df) ==
    [df |-> df, text_weights |-> text_weights, numeric_weights |-> numeric_weights,
     feature_vectors |-> prepare_features(df)]

ISqrt(n) == CHOOSE k \in 0..n : k * k = n

\* sklearn cosine_similarity of two rows, in units of 1/SimOne.
cosine_similarity(a, b) ==
    LET c == Cosine(a, b) IN (c.num * SimOne) \div ISqrt(c.rad)

\* 1 - |value - target| for scaled numeric values.
numeric_similarity_mirrored(value, target) == Abs(value - target)
numeric_similarity(value, target) == SimOne - Abs(value - target)

\* The sum of the values of a function over the set S of its arguments.
RECURSIVE SumOver(_, _)
SumOver(S, f) ==
    IF S = {} THEN 0
    ELSE LET x == CHOOSE y \in S : TRUE IN f[x] + SumOver(S \ {x}, f)

\* calculate_weighted_similarity(movie_idx): one score per row, in units of
\* 1/(100 * SimOne).
calculate_weighted_similarity(self, movie_idx) ==
    [i \in RowIndex(self.df) |->
        SumOver(DOMAIN self.text_weights, [f \in DOMAIN self.text_weights |->
            self.text_weights[f] * cosine_similarity(self.feature_vectors.text[f][movie_idx],
                                                self.feature_vectors.text[f][i])])
        + SumOver(DOMAIN self.numeric_weights, [f \in DOMAIN self.numeric_weights |->
            self.numeric_weights[f] * numeric_similarity(self.feature_vectors.numeric[f][i],
                                                    self.feature_vectors.numeric[f][movie_idx])])]

\* What requests.get and raise_for_status make of one request: the exception
\* they raise ("ConnectionError" for a network error, "HTTPError" for a status
\* other than 200) or None, and the body of a good response (the ids of the
\* 'results' of a search, the document of a details lookup).
Response(error, body) == [error |-> error, body |-> body]

\* The metadata service answers a title search in the primary and in the
\* alternative language and the details lookup with a response each.
Answer(p, a, d) == [primary |-> p, alternative |-> a, details |-> d]
ServiceAnswers ==
    {Answer(Response("ConnectionError", <<>>), Response("HTTPError", <<>>), Response(None, <<TRUE>>)),
     Answer(Response(None, <<>>), Response(None, <<>>), Response(None, <<TRUE>>)),
     Answer(Response(None, <<>>), Response(None, <<104, 102>>), Response(None, <<TRUE>>)),
     Answer(Response(None, <<101>>), Response("ConnectionError", <<>>), Response(None, <<TRUE>>)),
     Answer(Response(None, <<101>>), Response(None, <<>>), Response("HTTPError", <<>>)),
     Answer(Response("HTTPError", <<>>), Response(None, <<101>>), Response("ConnectionError", <<>>)),
     Answer(Response(None, <<103, 101>>), Response(None, <<104, 102>>), Response(None, <<TRUE>>)),
     Answer(Response(None, <<999>>), Response(None, <<101>>), Response(None, <<TRUE>>)),
     Answer(Response(None, <<102, 104, 101>>), Response(None, <<103>>), Response(None, <<TRUE>>))}

\* try: ... return response.json().get('results', []) / except Exception: return []
search_movie(response) ==
    IF response.error # None THEN <<>> ELSE response.body

\* try: ... return response.json() / except Exception: return None
get_movie_details_unguarded(response) ==
    Some(response.body)

get_movie_details(response) ==
    IF response.error # None THEN NoValue ELSE Some(response.body)

search_movie_multi_lang(answer) ==
    LET primary_results == search_movie(answer.primary)
        additional_results == search_movie(answer.alternative)
    IN IF Len(primary_results) < 3
       THEN primary_results \o
            SelectSeq(additional_results, LAMBDA id : id \notin Range(primary_results))
       ELSE primary_results

NotFound == [movie_idx |-> NoValue, title |-> NoValue, tmdb_id |-> NoValue]

find_movie_by_search_unchecked(self, answer) ==
    LET search_results == search_movie_multi_lang(answer)
    IN IF search_results = <<>> THEN NotFound
       ELSE LET tmdb_id == Head(search_results)
                dataset_match == {i \in RowIndex(self.df) : Row(self.df, i).tmdb_id = tmdb_id}
            IN IF dataset_match # {}
               THEN [movie_idx |-> Some(SetMin(dataset_match)),
                     title |-> Some(Row(self.df, SetMin(dataset_match)).title),
                     tmdb_id |-> Some(tmdb_id)]
               ELSE [movie_idx |-> NoValue, title |-> NoValue, tmdb_id |-> Some(tmdb_id)]

find_movie_by_search(self, answer) ==
    LET search_results == search_movie_multi_lang(answer)
        movie_details == get_movie_details(answer.details)
    IN IF search_results = <<>> THEN NotFound
       ELSE IF IsNone(movie_details) \/ Val(movie_details) = <<>> THEN NotFound
       ELSE LET tmdb_id == Head(search_results)
                dataset_match == {i \in RowIndex(self.df) : Row(self.df, i).tmdb_id = tmdb_id}
            IN IF dataset_match # {}
               THEN [movie_idx |-> Some(SetMin(dataset_match)),
                     title |-> Some(Row(self.df, SetMin(dataset_match)).title),
                     tmdb_id |-> Some(tmdb_id)]
               ELSE [movie_idx |-> NoValue, title |-> NoValue, tmdb_id |-> Some(tmdb_id)]

\* numpy argsort: every ascending order of the indices, equal scores in any
\* order (the default sort is not stable).
argsort(scores) ==
    {p \in InjSeqs(DOMAIN scores, Cardinality(DOMAIN scores)) :
        \A i \in 1..(Len(p) - 1) : scores[p[i]] <= scores[p[i + 1]]}

Reverse(s) == [i \in DOMAIN s |-> s[Len(s) + 1 - i]]

\* s[a:b] for 0 <= a <= b.
Slice(s, a, b) == SubSeq(s, a + 1, Min2(b, Len(s)))

\* similarity_scores * mask
filtered_scores_rating_only(self, similarity_scores, min_rating, min_votes) ==
    [i \in RowIndex(self.df) |->
        IF IsNone(min_rating) \/ Row(self.df, i).numbers.vote_average >= Val(min_rating)
        THEN similarity_scores[i] ELSE 0]
filtered_scores(self, similarity_scores, min_rating, min_votes) ==
    [i \in RowIndex(self.df) |->
        IF /\ (IsNone(min_rating) \/ Row(self.df, i).numbers.vote_average >= Val(min_rating))
           /\ (IsNone(min_votes) \/ Row(self.df, i).numbers.vote_count >= Val(min_votes))
        THEN similarity_scores[i] ELSE 0]

\* filtered_scores.argsort()[::-1][1:n_recommendations + 1] for one argsort.
similar_indices(order, n_recommendations) ==
    Slice(Reverse(order), 1, n_recommendations + 1)

\* sort_values('similarity_score', ascending=False): every descending order
\* of the records.
sort_values_desc(records) ==
    {[i \in DOMAIN records |-> records[p[i]]] :
        p \in {q \in InjSeqs(DOMAIN records, Len(records)) :
                 \A i \in 1..(Len(q) - 1) :
                    records[q[i]].similarity_score >= records[q[i + 1]].similarity_score}}

\* Every frame get_movie_recommendations may return for a resolved row.
CB_recommendations(self, movie_idx, n_recommendations, min_rating, min_votes) ==
    LET scores == filtered_scores(self, calculate_weighted_similarity(self, movie_idx),
                                  min_rating, min_votes)
    IN UNION {sort_values_desc(
                 LET idxs == similar_indices(order, n_recommendations)
                 IN [k \in DOMAIN idxs |->
                        [index |-> idxs[k],
                         tmdb_id |-> Row(self.df, idxs[k]).tmdb_id,
                         title |-> Row(self.df, idxs[k]).title,
                         similarity_score |-> scores[idxs[k]]]]) :
              order \in argsort(scores)}

\* Arguments of the content queries: (min_rating, min_votes).
FilterChoices == {<<NoValue, NoValue>>, <<Some(1), NoValue>>, <<NoValue, Some(1)>>}

InitContent ==
    /\ \E table \in MovieTables, missing \in MissingColumns :
          LET df == IF IsNone(missing) THEN table ELSE DropColumn(table, Val(missing))
          IN IF CB_init_raises(df)
             THEN /\ cb = Idle
                  /\ ret = Raised("cb.__init__", [df |-> df], "KeyError")
             ELSE /\ cb = CB_init(df)
                  /\ ret = NoCall
    /\ knn = Idle /\ cf = Idle /\ hy = Idle

CB_get_movie_recommendations ==
    /\ cb # Idle
    /\ \E answer \in ServiceAnswers, n \in 1..MaxRows, filter \in FilterChoices :
          LET found == find_movie_by_search(cb, answer)
              min_rating == filter[1]
              min_votes == filter[2]
              arg == [answer |-> answer, found |-> found, n_recommendations |-> n,
                      min_rating |-> min_rating, min_votes |-> min_votes]
          IN IF IsNone(found.movie_idx)
             THEN ret' = Returned("cb.get_movie_recommendations", arg, None)
             ELSE \E v \in CB_recommendations(cb, Val(found.movie_idx), n,
                                              min_rating, min_votes) :
                     ret' = Returned("cb.get_movie_recommendations", arg, v)
    /\ UNCHANGED <<knn, cf, cb, hy>>

CB_calculate_weighted_similarity ==
    /\ cb # Idle
    /\ \E movie_idx \in RowIndex(cb.df) :
          ret' = Returned("cb.calculate_weighted_similarity", [movie_idx |-> movie_idx],
                          calculate_weighted_similarity(cb, movie_idx))
    /\ UNCHANGED <<knn, cf, cb, hy>>

CB_find_movie_by_search ==
    /\ cb # Idle
    /\ \E answer \in ServiceAnswers :
          ret' = Returned("cb.find_movie_by_search", [answer |-> answer],
                          find_movie_by_search(cb, answer))
    /\ UNCHANGED <<knn, cf, cb, hy>>

NextContent ==
    \/ CB_get_movie_recommendations
    \/ CB_calculate_weighted_similarity
    \/ CB_find_movie_by_search

SpecContent == InitContent /\ [][NextContent]_vars

----------------------------------------------------------------------------
(* ImprovedHybridRecommender (HybridRS.py) *)

\* The object's two engines are the variables cb (content_recommender) and cf
\* (cf_recommender); hy holds the attributes of the hybrid object itself.
\* Weights are hundredths (WeightOne stands for 1.0) and scores are in the
\* unit of the content scores (ScoreOne stands for 1.0), so a combined score
\* is in units of 1/(WeightOne * ScoreOne).
WeightOne == 10 * 10
ScoreOne == WeightOne * SimOne

\* The constructor builds its CF engine with n_neighbers=10 and
\* preprocess(min_ratings=10); both are scaled down to the size of the rating
\* data below (with the values of the code no engine could be built from it).
HY_n_neighbers == 2
HY_min_ratings == 1

\* The data the constructor loads: a movie table (read by the content engine
\* and again as enriched_df), a catalogue and rating records whose matrix rows
\* have integral norms ((3,4), (4,3), (5,0), (0,5)).
HybridTables ==
    {df \in MovieTables :
        Column(df, "tmdb_id") \in {<<101>>, <<102, 101>>, <<103, 101, 102>>, <<101, 104, 102>>}}
\* A catalogue with its rating records, as <<movies_df, ratings_df>>: the
\* plain case; ratings whose first record is not of the smallest movie id; a
\* catalogue in another order than the ids, with a fourth movie; a catalogue
\* that lacks a rated movie; and ratings of two movies only.
InOrder == <<Movie(1, Alien \o YearPart), Movie(2, Aliens \o YearPart), Movie(3, Heat \o YearPart)>>
HybridData ==
    {<<InOrder,
       <<Rating(1, 1, 3), Rating(2, 1, 4), Rating(1, 2, 4), Rating(2, 2, 3), Rating(1, 3, 5)>>>>,
     <<InOrder,
       <<Rating(1, 3, 5), Rating(1, 1, 3), Rating(2, 1, 4), Rating(1, 2, 4), Rating(2, 2, 3)>>>>,
     <<<<Movie(2, Aliens \o YearPart), Movie(1, Alien \o YearPart),
         Movie(4, Big \o YearPart), Movie(3, Heat \o YearPart)>>,
       <<Rating(1, 1, 3), Rating(2, 1, 4), Rating(1, 2, 4), Rating(2, 2, 3), Rating(1, 3, 5),
         Rating(2, 4, 5)>>>>,
     <<<<Movie(3, Heat), Movie(1, Alien \o YearPart)>>,
       <<Rating(1, 1, 3), Rating(2, 1, 4), Rating(1, 2, 4), Rating(2, 2, 3), Rating(1, 3, 5)>>>>,
     <<InOrder, <<Rating(1, 1, 5), Rating(1, 2, 5)>>>>}
\* The answers of the metadata service and the weights the calls are made with.
HybridAnswers ==
    {Answer(Response("ConnectionError", <<>>), Response("HTTPError", <<>>), Response(None, <<TRUE>>)),
     Answer(Response(None, <<101>>), Response("ConnectionError", <<>>), Response(None, <<TRUE>>)),
     Answer(Response(None, <<103, 101>>), Response(None, <<104, 102>>), Response(None, <<TRUE>>)),
     Answer(Response(None, <<999>>), Response(None, <<101>>), Response(None, <<TRUE>>)),
     Answer(Response(None, <<102, 104, 101>>), Response(None, <<103>>), Response(None, <<TRUE>>))}
WeightChoices == {0 - 10, 0, 100, 110}
\* The (min_rating, min_votes) pairs the hybrid calls are made with.
HybridFilters == {<<NoValue, NoValue>>, <<Some(1), NoValue>>}

HY_init(df, movies_df, ratings_df) ==
    [movies_df |-> movies_df, ratings_df |-> ratings_df, enriched_df |-> df,
     content_weight |-> 30, cf_weight |-> 70]

\* A distance 1 - cosine reported by kneighbors, in units of 1/ScoreOne.
DistanceValue(d) ==
    ScoreOne - (d.one_minus.num * ScoreOne) \div ISqrt(d.one_minus.rad)

find_matching_title(self, partial_title) ==
    LET matches == SelectSeq(self.enriched_df, LAMBDA r :
                       str_contains(lower(r.title), lower(partial_title)))
    IN IF matches = <<>> THEN NoValue ELSE Some(matches[1].title)

\* The loop over cf_recommendations.iterrows() that fills cf_scores.
RECURSIVE HY_cf_scores(_, _)
HY_cf_scores(self, rows) ==
    IF rows = <<>> THEN <<>>
    ELSE LET movie == rows[Len(rows)]
             title == rsplit_head(movie.title_year, YearSep)
             similarity == ScoreOne - DistanceValue(movie.similarity)
             enriched_title == find_matching_title(self, title)
             cf_scores == HY_cf_scores(self, SubSeq(rows, 1, Len(rows) - 1))
         IN IF IsNone(enriched_title) \/ Val(enriched_title) = <<>> THEN cf_scores
            ELSE DictPut(cf_scores, Val(enriched_title), similarity)

\* sorted(items, key=lambda x: x[1], reverse=True): stable, equal scores keep
\* the order of the items.
InsertBeforeEqual(sorted, x) ==
    LET p == Cardinality({i \in DOMAIN sorted : sorted[i][2] > x[2]})
    IN SubSeq(sorted, 1, p) \o <<x>> \o SubSeq(sorted, p + 1, Len(sorted))

InsertByScoreDesc(sorted, x) ==
    LET p == Cardinality({i \in DOMAIN sorted : sorted[i][2] >= x[2]})
    IN SubSeq(sorted, 1, p) \o <<x>> \o SubSeq(sorted, p + 1, Len(sorted))

RECURSIVE SortByScoreDesc(_)
SortByScoreDesc(s) ==
    IF s = <<>> THEN <<>>
    ELSE InsertByScoreDesc(SortByScoreDesc(SubSeq(s, 1, Len(s) - 1)), s[Len(s)])

\* The local variables of a get_recommendations call as they stand when the
\* call ends: the frame of the content engine (None, or a frame), the frame of
\* the CF engine (unassigned, or a frame), and the three score dicts.
HY_locals(content_recommendations, actual_movie, cf_recommendations, content_based_scores, cf_scores, combined_scores) ==
    [content_recommendations |-> content_recommendations,
     actual_movie |-> actual_movie,
     cf_recommendations |-> cf_recommendations,
     content_based_scores |-> content_based_scores,
     cf_scores |-> cf_scores,
     combined_scores |-> combined_scores]

\* set(content_based_scores.keys()) | set(cf_scores.keys())
all_movies_common(content_based_scores, cf_scores) ==
    Range(DictKeys(content_based_scores)) \cap Range(DictKeys(cf_scores))
all_movies_of(content_based_scores, cf_scores) ==
    Range(DictKeys(content_based_scores)) \cup Range(DictKeys(cf_scores))

\* self.content_weight * content_score + self.cf_weight * cf_score
combined_score_cf_only(self, content_score, cf_score) ==
    self.cf_weight * cf_score
combined_score_swapped(self, content_score, cf_score) ==
    self.cf_weight * content_score + self.content_weight * cf_score
combined_score(self, content_score, cf_score) ==
    self.content_weight * content_score + self.cf_weight * cf_score

\* The combination of the two score dicts: every (combined_scores, frame)
\* get_recommendations may end with for them, one per iteration order of the
\* set all_movies. Of the columns copied from the enriched row (year, genres,
\* director, vote_average) the frame of the model keeps vote_average.
HY_combine(self, content_based_scores, cf_scores, n_recommendations) ==
    LET all_movies == all_movies_of(content_based_scores, cf_scores)
        combined(movie) ==
            combined_score(self, DictGetOr(content_based_scores, movie, 0),
                           DictGetOr(cf_scores, movie, 0))
    IN {LET combined_scores == [i \in DOMAIN order |-> <<order[i], combined(order[i])>>]
            top_movies == Take(SortByScoreDesc(combined_scores), n_recommendations)
        IN [combined_scores |-> combined_scores,
            frame |->
               [k \in DOMAIN top_movies |->
                  LET movie_title == top_movies[k][1]
                      movie_data == SelectSeq(self.enriched_df,
                                              LAMBDA r : r.title = movie_title)[1]
                  IN [title |-> movie_title,
                      vote_average |-> movie_data.numbers.vote_average,
                      content_score |-> DictGetOr(content_based_scores, movie_title, 0),
                      cf_score |-> DictGetOr(cf_scores, movie_title, 0),
                      combined_score |-> top_movies[k][2]]]] :
          order \in InjSeqs(all_movies, Cardinality(all_movies))}

\* The outcomes of a call that reaches the combination with the given locals.
HY_combined(self, content_recommendations, actual_movie, cf_recommendations, content_based_scores, cf_scores, n_recommendations) ==
    {[error |-> None, value |-> c.frame,
      locals |-> HY_locals(content_recommendations, actual_movie, cf_recommendations,
                           content_based_scores, cf_scores, c.combined_scores)] :
        c \in HY_combine(self, content_based_scores, cf_scores, n_recommendations)}

\* What get_recommendations does with one content frame: every outcome.
HY_from_content(self, cfr, content_recommendations, n_recommendations) ==
    IF content_recommendations = <<>>
    THEN {[error |-> "IndexError", value |-> <<>>,
           locals |-> HY_locals(Some(content_recommendations), NoValue, NoValue, <<>>, <<>>, <<>>)]}
    ELSE LET actual_movie == content_recommendations[1].title
             content_based_scores ==
                 DictZip(Column(content_recommendations, "title"),
                         Column(content_recommendations, "similarity_score"))
             matches == find_movie_id(cfr, actual_movie)
         IN IF matches = <<>>
            THEN HY_combined(self, Some(content_recommendations), Some(actual_movie), NoValue,
                             content_based_scores, <<>>, n_recommendations)
            ELSE UNION {IF o.error # None
                        THEN {[error |-> o.error, value |-> <<>>,
                               locals |-> HY_locals(Some(content_recommendations),
                                                    Some(actual_movie), NoValue,
                                                    content_based_scores, <<>>, <<>>)]}
                        ELSE HY_combined(self, Some(content_recommendations),
                                         Some(actual_movie), Some(o.value),
                                         content_based_scores, HY_cf_scores(self, o.value),
                                         n_recommendations) :
                          o \in CF_recommend(cfr, matches[1][2])}

\* Every outcome of get_recommendations for one answer of the metadata service.
HY_recommendations(self, cbr, cfr, answer, n_recommendations, min_rating, min_votes) ==
    LET found == find_movie_by_search(cbr, answer)
    IN IF IsNone(found.movie_idx)
       THEN HY_combined(self, NoValue, NoValue, NoValue, <<>>, <<>>, n_recommendations)
       ELSE UNION {HY_from_content(self, cfr, content_recommendations, n_recommendations) :
                      content_recommendations \in
                          CB_recommendations(cbr, Val(found.movie_idx), n_recommendations * 2,
                                             min_rating, min_votes)}

adjust_weights_unguarded(self, content_weight) ==
    [self EXCEPT !.content_weight = content_weight,
                 !.cf_weight = WeightOne - content_weight]
adjust_weights_content_only(self, content_weight) ==
    IF 0 <= content_weight /\ content_weight <= WeightOne
    THEN [self EXCEPT !.content_weight = content_weight]
    ELSE self
adjust_weights(self, content_weight) ==
    IF 0 <= content_weight /\ content_weight <= WeightOne
    THEN [self EXCEPT !.content_weight = content_weight,
                      !.cf_weight = WeightOne - content_weight]
    ELSE self

InitHybrid ==
    /\ \E df \in HybridTables, data \in HybridData :
          LET movies_df == data[1]
              ratings_df == data[2]
              cfr == CF_preprocess(CF_init(movies_df, ratings_df, HY_n_neighbers),
                                   HY_min_ratings)
          IN /\ ~CF_fit_raises(cfr)
             /\ cb = CB_init(df)
             /\ cf = CF_fit(cfr)
             /\ hy = HY_init(df, movies_df, ratings_df)
    /\ knn = Idle
    /\ ret = NoCall

\* adjust_weights returns None whether it accepts the weight or not (it only
\* prints a different message).
HY_adjust_weights ==
    /\ \E content_weight \in WeightChoices :
          /\ hy' = adjust_weights(hy, content_weight)
          /\ ret' = Returned("hy.adjust_weights", [content_weight |-> content_weight], None)
    /\ UNCHANGED <<knn, cf, cb>>

\* get_recommendations as it would be if it stored the weights back swapped.
HY_get_recommendations_reweighting ==
    /\ \E answer \in HybridAnswers, n \in NRecChoices, filter \in HybridFilters :
          \E o \in HY_recommendations(hy, cb, cf, answer, n, filter[1], filter[2]) :
              ret' = Outcome("hy.get_recommendations",
                             [found |-> find_movie_by_search(cb, answer),
                              n_recommendations |-> n,
                              min_rating |-> filter[1], min_votes |-> filter[2]], o)
                     @@ [locals |-> o.locals]
    /\ hy' = [hy EXCEPT !.content_weight = hy.cf_weight, !.cf_weight = hy.content_weight]
    /\ UNCHANGED <<knn, cf, cb>>

HY_get_recommendations ==
    /\ \E answer \in HybridAnswers, n \in NRecChoices, filter \in HybridFilters :
          \E o \in HY_recommendations(hy, cb, cf, answer, n, filter[1], filter[2]) :
              ret' = Outcome("hy.get_recommendations",
                             [found |-> find_movie_by_search(cb, answer),
                              n_recommendations |-> n,
                              min_rating |-> filter[1], min_votes |-> filter[2]], o)
                     @@ [locals |-> o.locals]
    /\ UNCHANGED <<knn, cf, cb, hy>>

NextHybrid == HY_adjust_weights \/ HY_get_recommendations

SpecHybrid == InitHybrid /\ [][NextHybrid]_vars

----------------------------------------------------------------------------
(* Claims about the collaborative engines *)

KnnRecommended == ret.op = "knn.get_movie_recommendations" /\ ret.outcome = "return"
CfRecommendCalled == ret.op = "cf.recommend"
CfRecommended == CfRecommendCalled /\ ret.outcome = "return"

\* The CF engine is trained: preprocess and fit have run, fit last.
CfTrained(self) ==
    /\ ~IsNone(self.movie_to_idx) /\ ~IsNone(self.model)
    /\ Val(self.model).fitted
    /\ Val(self.model).fit_X = Val(self.movie_user_mat)
CfKnown(self, movie_id) == DictHas(Val(self.movie_to_idx), movie_id)

\* C1: the neighbours returned by KNNMovieRecommender.get_movie_recommendations
\* and by CFMovieRecommender.recommend never include the queried item itself.
C1_NeighboursExcludeQuery ==
    /\ KnnRecommended =>
          \A i \in DOMAIN ret.value :
              ret.value[i].movie_id # standardize_movie_id(knn, ret.arg.movie_id)
    /\ CfRecommended =>
          \A i \in DOMAIN ret.value : ret.value[i].movie_id # ret.arg.movie_id

\* C2: a neighbour query for k neighbours on a fitted matrix of N rows returns
\* exactly min(k, N-1) neighbours and never an error (KNN: n_neighbors, no
\* min_rating filter, n_recommendations not below n_neighbors; CF: n_neighbers).
C2_ExactlyMinKNminus1 ==
    /\ (/\ KnnRecommended
        /\ IsNone(ret.arg.min_rating)
        /\ ret.arg.n_recommendations >= knn.n_neighbors
        /\ standardize_movie_id(knn, ret.arg.movie_id) \in DOMAIN knn.movie_mapping)
          => Len(ret.value) = Min2(knn.n_neighbors, NumRows(knn.movie_user_matrix) - 1)
    /\ (CfRecommendCalled /\ CfTrained(cf) /\ CfKnown(cf, ret.arg.movie_id))
          => /\ ret.outcome = "return"
             /\ Len(ret.value) = Min2(cf.n_neighbers, NumRows(Val(cf.movie_user_mat)) - 1)

\* The rating of the last record of ratings_df for the pair (u, m).
HasRating(ratings_df, u, m) ==
    \E i \in DOMAIN ratings_df : ratings_df[i].user_id = u /\ ratings_df[i].movie_id = m
LastRating(ratings_df, u, m) ==
    LET last == CHOOSE i \in DOMAIN ratings_df :
                    /\ ratings_df[i].user_id = u /\ ratings_df[i].movie_id = m
                    /\ \A j \in DOMAIN ratings_df :
                          (ratings_df[j].user_id = u /\ ratings_df[j].movie_id = m) => j <= i
    IN ratings_df[last].rating

\* C5: with several records for one (user, item) pair, the matrix cell of the
\* pair holds the rating of the last such record, not the sum or the average.
C5_LastWriteWins ==
    knn # Idle =>
        \A m \in DOMAIN knn.movie_mapping : \A u \in DOMAIN knn.user_mapping :
            HasRating(knn.ratings_df, u, m) =>
                knn.movie_user_matrix[knn.movie_mapping[m]][knn.user_mapping[u]]
                    = LastRating(knn.ratings_df, u, m)

\* The eligible items and their raters, counted from the rating records.
RatingCount(ratings_df, m) == Cardinality({i \in DOMAIN ratings_df : ratings_df[i].movie_id = m})
EligibleItems(ratings_df, min_ratings) ==
    {m \in {ratings_df[i].movie_id : i \in DOMAIN ratings_df} :
        RatingCount(ratings_df, m) >= min_ratings}
EligibleUsers(ratings_df, min_ratings) ==
    {ratings_df[i].user_id : i \in {j \in DOMAIN ratings_df :
        ratings_df[j].movie_id \in EligibleItems(ratings_df, min_ratings)}}
IsBijectionOnto(f, n) ==
    /\ {f[x] : x \in DOMAIN f} = 0..(n - 1)
    /\ \A x, y \in DOMAIN f : f[x] = f[y] => x = y

\* The example of the specification: (u1,m1,5), (u2,m1,4), (u1,m2,3).
ExampleRatings == <<Rating(1, <<1, 0>>, 5), Rating(2, <<1, 0>>, 4), Rating(1, ShortIdStr, 3)>>

\* C6: the matrix built by prepare_data has exactly one row per item whose
\* rating count is >= min_ratings and exactly one column per user who rated an
\* eligible item; the example ratings with threshold 1 give a 2x2 matrix and
\* mean rating 4.5 (= 9/2) for m1.
C6_MatrixShape ==
    knn # Idle =>
        /\ DOMAIN knn.movie_mapping = EligibleItems(knn.ratings_df, knn.min_ratings)
        /\ DOMAIN knn.user_mapping = EligibleUsers(knn.ratings_df, knn.min_ratings)
        /\ IsBijectionOnto(knn.movie_mapping, NumRows(knn.movie_user_matrix))
        /\ IsBijectionOnto(knn.user_mapping, NumCols(knn.movie_user_matrix))
        /\ \A r \in DOMAIN knn.movie_user_matrix :
              DOMAIN knn.movie_user_matrix[r] = 0..(Cardinality(DOMAIN knn.user_mapping) - 1)
        /\ (knn.ratings_df = ExampleRatings /\ knn.min_ratings = 1) =>
              /\ NumRows(knn.movie_user_matrix) = 2
              /\ NumCols(knn.movie_user_matrix) = 2
              /\ knn.movie_stats[<<1, 0>>].mean_rating = [num |-> 9, den |-> 2]

\* C6 witness: the engine built from the example ratings with threshold 1,
\* and an engine whose threshold leaves out an item and its only rater.
C6_Witness ==
    /\ knn # Idle
    /\ knn.ratings_df = ExampleRatings /\ knn.min_ratings = 1
    /\ NumRows(knn.movie_user_matrix) = 2

CbRecommendCalled == ret.op = "cb.get_movie_recommendations"
CbResolved == CbRecommendCalled /\ ~IsNone(ret.arg.found.movie_idx)
CbSimilarityCalled == ret.op = "cb.calculate_weighted_similarity"

\* C3: the vector returned by calculate_weighted_similarity(i) has one entry
\* per movie row, and its entry at position i is the maximum of the vector,
\* also for a row whose text features are all empty.
C3_SelfSimilarityIsMax ==
    CbSimilarityCalled =>
        /\ DOMAIN ret.value = RowIndex(cb.df)
        /\ \A j \in RowIndex(cb.df) : ret.value[ret.arg.movie_idx] >= ret.value[j]

\* C3 witness: the vector of a row without any text, in a table with a row
\* that scores strictly lower than the row itself.
C3_Witness ==
    /\ CbSimilarityCalled
    /\ \A f \in DOMAIN text_weights : Row(cb.df, ret.arg.movie_idx).texts[f] = Zero
    /\ \E j \in RowIndex(cb.df) : ret.value[j] < ret.value[ret.arg.movie_idx]

\* C4: for every query row and every setting of min_rating / min_votes, the
\* content top-N list returned by get_movie_recommendations never contains
\* the query movie.
C4_QueryNeverRecommended ==
    CbResolved =>
        \A k \in DOMAIN ret.value : ret.value[k].index # Val(ret.arg.found.movie_idx)

\* C7: a scoring call for an item that is not in the ratings, or that was
\* filtered out of the trained matrix, returns an empty result and never
\* raises, and a following query on a known item still succeeds.
C7_NotFoundIsEmptyAndHarmless ==
    /\ [](/\ (KnnRecommended /\ standardize_movie_id(knn, ret.arg.movie_id)
                                   \notin DOMAIN knn.movie_mapping) => ret.value = <<>>
          /\ (CfRecommendCalled /\ CfTrained(cf) /\ ~CfKnown(cf, ret.arg.movie_id))
                => (ret.outcome = "return" /\ ret.value = <<>>)
          /\ (CbRecommendCalled /\ IsNone(ret.arg.found.movie_idx))
                => (ret.outcome = "return" /\ ret.value = None))
    /\ [][(/\ CfRecommendCalled /\ CfTrained(cf) /\ ~CfKnown(cf, ret.arg.movie_id)
           /\ ret'.op = "cf.recommend" /\ CfKnown(cf, ret'.arg.movie_id))
             => ret'.outcome = "return"]_vars

\* C8: a neighbour query on a CFMovieRecommender before fit has been called
\* fails with UntrainedModelError: it neither returns a result nor fails with
\* another error.
C8_UntrainedModelError ==
    (CfRecommendCalled /\ (IsNone(cf.model) \/ ~Val(cf.model).fitted))
        => (ret.outcome = "raise" /\ ret.error = "UntrainedModelError")

HyAdjustCalled == ret.op = "hy.adjust_weights"
HyRecommendCalled == ret.op = "hy.get_recommendations"
InvalidWeight(w) == w < 0 \/ w > WeightOne

\* C9: in every state reachable from the construction of the hybrid engine by
\* adjust_weights calls (valid or invalid arguments) and get_recommendations
\* calls, content_weight lies in [0, 1] and cf_weight = 1 - content_weight.
C9_WeightsInvariant ==
    hy # Idle =>
        /\ 0 <= hy.content_weight /\ hy.content_weight <= WeightOne
        /\ hy.cf_weight = WeightOne - hy.content_weight

\* C9 witness: a get_recommendations call answered after the weights were
\* moved to the boundary content_weight = 0, cf_weight = 1.
C9_Witness ==
    /\ HyRecommendCalled /\ ret.outcome = "return" /\ ret.value # <<>>
    /\ hy.content_weight = 0 /\ hy.cf_weight = WeightOne

----------------------------------------------------------------------------
(* Claims about the hybrid combination *)

HyReturned == HyRecommendCalled /\ ret.outcome = "return"

\* The keys of a score dict, and the score it holds for a title (0 if none).
TitlesOf(d) == {d[i][1] : i \in DOMAIN d}
ScoreIn(d, t) == IF t \in TitlesOf(d) THEN (CHOOSE kv \in Range(d) : kv[1] = t)[2] ELSE 0

\* The titles of the content list of the call, and its score for a title.
ContentListTitles ==
    IF IsNone(ret.locals.content_recommendations) THEN {}
    ELSE {r.title : r \in Range(Val(ret.locals.content_recommendations))}
ContentListScore(t) ==
    (CHOOSE r \in Range(Val(ret.locals.content_recommendations)) : r.title = t).similarity_score

\* The rows of the collaborative list of the call, the enriched titles a row
\* resolves to (those that contain its title, case folded), and its similarity.
CfListRows ==
    IF IsNone(ret.locals.cf_recommendations) THEN {}
    ELSE Range(Val(ret.locals.cf_recommendations))
ResolvesTo(row, t) ==
    /\ t \in {r.title : r \in Range(hy.enriched_df)}
    /\ str_contains(lower(t), lower(rsplit_head(row.title_year, YearSep)))
RowSimilarity(row) == ScoreOne - DistanceValue(row.similarity)

\* C11: the combiner scores exactly the union of the titles of the content
\* list and of the resolved collaborative list, each once, with combined_score
\* = content_weight * content_score + cf_weight * cf_score, a score missing on
\* one side counting as 0; every returned row is one of these scored titles.
C11_UnionCombined ==
    HyReturned =>
        LET content_based_scores == ret.locals.content_based_scores
            cf_scores == ret.locals.cf_scores
            combined_scores == ret.locals.combined_scores
        IN /\ TitlesOf(content_based_scores) = ContentListTitles
           /\ \A t \in ContentListTitles :
                 ScoreIn(content_based_scores, t) = ContentListScore(t)
           /\ \A t \in TitlesOf(cf_scores) :
                 \E row \in CfListRows :
                     ResolvesTo(row, t) /\ ScoreIn(cf_scores, t) = RowSimilarity(row)
           /\ \A row \in CfListRows :
                 (\E t \in {r.title : r \in Range(hy.enriched_df)} : ResolvesTo(row, t))
                     => \E t \in TitlesOf(cf_scores) : ResolvesTo(row, t)
           /\ TitlesOf(combined_scores) = ContentListTitles \cup TitlesOf(cf_scores)
           /\ \A i, j \in DOMAIN combined_scores :
                 combined_scores[i][1] = combined_scores[j][1] => i = j
           /\ \A i \in DOMAIN combined_scores :
                 combined_scores[i][2] =
                     hy.content_weight * ScoreIn(content_based_scores, combined_scores[i][1])
                     + hy.cf_weight * ScoreIn(cf_scores, combined_scores[i][1])
           /\ \A k \in DOMAIN ret.value :
                 /\ <<ret.value[k].title, ret.value[k].combined_score>> \in Range(combined_scores)
                 /\ ret.value[k].content_score = ScoreIn(content_based_scores, ret.value[k].title)
                 /\ ret.value[k].cf_score = ScoreIn(cf_scores, ret.value[k].title)

\* C11 witness: a returned frame that ranks a title of the collaborative list
\* only and a title of the content list only, both with a positive score.
C11_Witness ==
    /\ HyReturned
    /\ \E k \in DOMAIN ret.value :
          /\ ret.value[k].title \notin ContentListTitles
          /\ ret.value[k].cf_score > 0 /\ ret.value[k].combined_score > 0
    /\ \E k \in DOMAIN ret.value :
          /\ ret.value[k].title \notin TitlesOf(ret.locals.cf_scores)
          /\ ret.value[k].content_score > 0 /\ ret.value[k].combined_score > 0

\* The rows of a frame come in non-increasing order of one of its columns.
NonIncreasing(frame, column) ==
    \A k \in 1..(Len(frame) - 1) : frame[k][column] >= frame[k + 1][column]

\* C12 (as the code behaves): with content_weight = 0 every combined_score
\* equals that title's cf_score exactly (0 for a title that only the content
\* list holds) and the frame is ordered by non-increasing cf_score; its titles
\* are drawn from the union of both lists, not from the collaborative list only.
C12_ZeroContentWeight ==
    (HyReturned /\ hy.content_weight = 0) =>
        /\ \A i \in DOMAIN ret.locals.combined_scores :
              ret.locals.combined_scores[i][2] =
                  WeightOne * ScoreIn(ret.locals.cf_scores, ret.locals.combined_scores[i][1])
        /\ \A k \in DOMAIN ret.value :
              /\ ret.value[k].combined_score = WeightOne * ret.value[k].cf_score
              /\ ret.value[k].title \in ContentListTitles \cup TitlesOf(ret.locals.cf_scores)
        /\ NonIncreasing(ret.value, "cf_score")

\* C12 witness: at content_weight = 0 a title of the collaborative list with a
\* positive score is ranked before a title of the content list only, which
\* is returned with combined_score 0.
C12_Witness ==
    /\ HyReturned /\ hy.content_weight = 0
    /\ Len(ret.value) = 2
    /\ ret.value[1].cf_score > 0
    /\ ret.value[2].title \notin TitlesOf(ret.locals.cf_scores)
    /\ ret.value[2].content_score > 0 /\ ret.value[2].combined_score = 0

\* C12 as stated: with content_weight = 0 the frame holds the resolved titles
\* of the collaborative list and no others, in the order of their cf_score,
\* each with combined_score equal to its cf_score.
C12_SameAsCollaborative ==
    (HyReturned /\ hy.content_weight = 0) =>
        /\ {ret.value[k].title : k \in DOMAIN ret.value} \subseteq TitlesOf(ret.locals.cf_scores)
        /\ Len(ret.value) = Min2(ret.arg.n_recommendations,
                                 Cardinality(TitlesOf(ret.locals.cf_scores)))
        /\ NonIncreasing(ret.value, "cf_score")
        /\ \A k \in DOMAIN ret.value :
              ret.value[k].combined_score = WeightOne * ret.value[k].cf_score

\* The titles of the content list of the call, in the order of the list.
ContentListSeq ==
    IF IsNone(ret.locals.content_recommendations) THEN <<>>
    ELSE [k \in DOMAIN Val(ret.locals.content_recommendations) |->
              Val(ret.locals.content_recommendations)[k].title]

\* C13 (as the code behaves): with content_weight = 1 every combined_score
\* equals that title's content_score exactly (0 for a title that only the
\* collaborative list holds) and the frame is ordered by non-increasing
\* content_score; it holds at most n_recommendations titles of the union of
\* both lists, not the content list itself.
C13_FullContentWeight ==
    (HyReturned /\ hy.content_weight = WeightOne) =>
        /\ \A i \in DOMAIN ret.locals.combined_scores :
              ret.locals.combined_scores[i][2] =
                  WeightOne * ScoreIn(ret.locals.content_based_scores,
                                      ret.locals.combined_scores[i][1])
        /\ \A k \in DOMAIN ret.value :
              /\ ret.value[k].combined_score = WeightOne * ret.value[k].content_score
              /\ ret.value[k].title \in ContentListTitles \cup TitlesOf(ret.locals.cf_scores)
        /\ NonIncreasing(ret.value, "content_score")
        /\ Len(ret.value) <= ret.arg.n_recommendations

\* C13 witness: at content_weight = 1 a title of the content list with a
\* positive score is ranked before a title of the collaborative list only,
\* which is returned with combined_score 0.
C13_Witness ==
    /\ HyReturned /\ hy.content_weight = WeightOne
    /\ Len(ret.value) = 2
    /\ ret.value[1].content_score > 0
    /\ ret.value[2].title \notin ContentListTitles
    /\ ret.value[2].cf_score > 0 /\ ret.value[2].combined_score = 0

\* C13 as stated: with content_weight = 1 the frame lists the titles of the
\* content list, all of them and no others, in the order of the content list,
\* each with combined_score equal to its content_score.
C13_SameAsContent ==
    (HyReturned /\ hy.content_weight = WeightOne) =>
        /\ [k \in DOMAIN ret.value |-> ret.value[k].title] = ContentListSeq
        /\ \A k \in DOMAIN ret.value :
              ret.value[k].combined_score = WeightOne * ret.value[k].content_score

\* The place of a title in the iteration order of the title union of the call.
UnionPosition(t) ==
    CHOOSE i \in DOMAIN ret.locals.combined_scores : ret.locals.combined_scores[i][1] = t

\* C14: the hybrid output is ordered by non-increasing combined_score and holds
\* the first n_recommendations titles of that order (all of them when there
\* are fewer); titles with equal combined_score, returned or cut off, keep the
\* relative order they have in the iteration order of the title union.
C14_OrderedAndStable ==
    HyReturned =>
        LET combined_scores == ret.locals.combined_scores
            returned == {ret.value[k].title : k \in DOMAIN ret.value}
        IN /\ NonIncreasing(ret.value, "combined_score")
           /\ Len(ret.value) <= ret.arg.n_recommendations
           /\ Len(ret.value) = Min2(ret.arg.n_recommendations, Len(combined_scores))
           /\ \A k, l \in DOMAIN ret.value :
                 (k < l /\ ret.value[k].combined_score = ret.value[l].combined_score)
                     => UnionPosition(ret.value[k].title) < UnionPosition(ret.value[l].title)
           /\ \A i \in DOMAIN combined_scores : \A k \in DOMAIN ret.value :
                 combined_scores[i][1] \notin returned
                     => \/ combined_scores[i][2] < ret.value[k].combined_score
                        \/ /\ combined_scores[i][2] = ret.value[k].combined_score
                           /\ UnionPosition(ret.value[k].title) < i

\* C14 witness: two returned titles have equal combined_score and the one
\* ranked first is not the one whose title sorts first, and a third title of
\* the union is cut off by n_recommendations.
C14_Witness ==
    /\ HyReturned
    /\ Len(ret.locals.combined_scores) > Len(ret.value)
    /\ \E k \in 1..(Len(ret.value) - 1) :
          /\ ret.value[k].combined_score = ret.value[k + 1].combined_score
          /\ ret.value[k].combined_score > 0
          /\ StrLess(ret.value[k + 1].title, ret.value[k].title)

----------------------------------------------------------------------------
(* Claims about identifier normalisation and the item index *)

KnnDetailsCalled == ret.op = "knn.get_movie_details"
KnnRecommendCalled == ret.op = "knn.get_movie_recommendations"

\* A str of digits left-padded with '0' to a width.
ZeroPadded(s, width) ==
    IF Len(s) >= width THEN s
    ELSE [i \in 1..width |-> IF i <= width - Len(s) THEN 0 ELSE s[i - (width - Len(s))]]

\* The id a lookup for movie_id is answered for: the id itself when it is
\* known, else its 7-wide padded form when that is known, else none.
LookedUpId(movie_id) ==
    IF movie_id \in knn.all_movie_ids THEN Some(movie_id)
    ELSE IF ZeroPadded(movie_id, 7) \in knn.all_movie_ids THEN Some(ZeroPadded(movie_id, 7))
    ELSE NoValue

\* C15: a lookup is answered for the given id when it is among all known item
\* ids, else for the id left-padded with zeros to width 7 when that form is
\* known; only when both are absent get_movie_details returns None and
\* get_movie_recommendations returns the empty list.
C15_StandardizedLookup ==
    /\ KnnDetailsCalled =>
          /\ IsNone(ret.value) <=> IsNone(LookedUpId(ret.arg.movie_id))
          /\ ~IsNone(ret.value) =>
                /\ ret.value.movie_id = Val(LookedUpId(ret.arg.movie_id))
                /\ ret.value = KNN_movie_details(knn, Val(LookedUpId(ret.arg.movie_id)))
    /\ KnnRecommendCalled =>
          /\ IsNone(LookedUpId(ret.arg.movie_id)) => ret.value = <<>>
          /\ ~IsNone(LookedUpId(ret.arg.movie_id)) =>
                ret.value \in KNN_recommendations(knn, Val(LookedUpId(ret.arg.movie_id)),
                                                  ret.arg.n_recommendations,
                                                  ret.arg.min_rating)

\* C15 witness: a lookup of the short id '2', which only its padded form
\* '0000002' answers, returns a recommendation.
C15_Witness ==
    /\ KnnRecommendCalled
    /\ ret.arg.movie_id = ShortIdStr
    /\ ShortIdStr \notin knn.all_movie_ids /\ PaddedIdStr \in knn.all_movie_ids
    /\ ret.value # <<>>

----------------------------------------------------------------------------
(* Claims about content-side resolution and the metadata service *)

CbFindCalled == ret.op = "cb.find_movie_by_search"

\* The candidates of the title search of a call: those of the primary
\* language, then those the alternative language adds; and the first of them.
PrimaryCandidates == search_movie(ret.arg.answer.primary)
AlternativeCandidates == search_movie(ret.arg.answer.alternative)
HasCandidate == PrimaryCandidates # <<>> \/ AlternativeCandidates # <<>>
FirstCandidate ==
    IF PrimaryCandidates # <<>> THEN PrimaryCandidates[1] ELSE AlternativeCandidates[1]
DetailsFound == ret.arg.answer.details.error = None
RowsWithId(id) == {i \in RowIndex(cb.df) : Row(cb.df, i).tmdb_id = id}

\* What the resolution returns for the first candidate once it is selected.
ResolvedFirstCandidate ==
    IF RowsWithId(FirstCandidate) # {}
    THEN /\ ret.value.tmdb_id = Some(FirstCandidate)
         /\ ~IsNone(ret.value.movie_idx)
         /\ Val(ret.value.movie_idx) \in RowsWithId(FirstCandidate)
         /\ ret.value.title = Some(Row(cb.df, Val(ret.value.movie_idx)).title)
    ELSE /\ ret.value.tmdb_id = Some(FirstCandidate)
         /\ IsNone(ret.value.movie_idx) /\ IsNone(ret.value.title)

\* C16 (as the code behaves): find_movie_by_search selects the first candidate
\* of the title search; when the details lookup for it succeeds it returns the
\* index of the table row with that external id, or the external id alone when
\* no row has it; with no candidate, or when the details lookup fails, it
\* returns not found.
C16_FirstCandidateResolved ==
    CbFindCalled =>
        /\ ~HasCandidate => ret.value = NotFound
        /\ (HasCandidate /\ ~DetailsFound) => ret.value = NotFound
        /\ (HasCandidate /\ DetailsFound) => ResolvedFirstCandidate

\* C16 witness: of several candidates that are rows of the table the first one
\* is returned, although another one sits in an earlier row.
C16_Witness ==
    /\ CbFindCalled /\ DetailsFound
    /\ Len(PrimaryCandidates) > 1
    /\ ~IsNone(ret.value.movie_idx)
    /\ Row(cb.df, Val(ret.value.movie_idx)).tmdb_id = PrimaryCandidates[1]
    /\ \E i \in RowsWithId(PrimaryCandidates[2]) : i < Val(ret.value.movie_idx)

\* C16 as stated: with no candidate the resolution returns not found, and
\* with candidates it returns the row index of the first one when the table
\* has it and its external id alone otherwise.
C16_FirstCandidateAlways ==
    CbFindCalled =>
        /\ ~HasCandidate => ret.value = NotFound
        /\ HasCandidate => ResolvedFirstCandidate

\* A request that failed: a network error, a status other than 200, or (for a
\* search) an empty result set.
RequestFailed(response) == response.error # None \/ response.body = <<>>
TitleSearchFailed ==
    RequestFailed(ret.arg.answer.primary) /\ RequestFailed(ret.arg.answer.alternative)
DetailsLookupFailed == ~TitleSearchFailed /\ RequestFailed(ret.arg.answer.details)

\* C17: a failed request ends as "no result": search_movie returns the empty
\* list for it and get_movie_details returns None; when the title search fails
\* in both languages it asks, or the details lookup fails, find_movie_by_search
\* returns not found and get_movie_recommendations returns None, without
\* raising and with no row to run the similarity computation on.
C17_FailureIsNoResult ==
    (CbFindCalled \/ CbRecommendCalled) =>
        /\ \A response \in {ret.arg.answer.primary, ret.arg.answer.alternative} :
              RequestFailed(response) => search_movie(response) = <<>>
        /\ RequestFailed(ret.arg.answer.details)
              => IsNone(get_movie_details(ret.arg.answer.details))
        /\ (CbFindCalled /\ (TitleSearchFailed \/ DetailsLookupFailed))
              => (ret.outcome = "return" /\ ret.value = NotFound)
        /\ (CbRecommendCalled /\ (TitleSearchFailed \/ DetailsLookupFailed))
              => /\ ret.outcome = "return"
                 /\ IsNone(ret.arg.found.movie_idx)
                 /\ ret.value = None

\* C17 witness: the primary search fails with a status other than 200, the
\* alternative search finds a movie of the table, the details lookup fails
\* with a network error, and get_movie_recommendations returns None.
C17_Witness ==
    /\ CbRecommendCalled
    /\ ret.arg.answer.primary.error = "HTTPError"
    /\ \E id \in Range(ret.arg.answer.alternative.body) : RowsWithId(id) # {}
    /\ ret.arg.answer.details.error = "ConnectionError"
    /\ ret.outcome = "return"
    /\ IsNone(ret.arg.found.movie_idx)
    /\ ret.value = None

----------------------------------------------------------------------------
(* Claims about the construction of the content engine *)

CbConstructed == cb # Idle
CbConstructionFailed == ret.op = "cb.__init__" /\ ret.outcome = "raise"
DeclaredFeatures == DOMAIN text_weights \cup DOMAIN numeric_weights

\* C18: the declared feature weights of the content engine, text and numeric
\* together, sum to exactly 1.0 (100 hundredths), and no operation after
\* construction changes them.
C18_WeightsSumToOne ==
    /\ [](CbConstructed =>
            SumOver(DOMAIN cb.text_weights, cb.text_weights)
                + SumOver(DOMAIN cb.numeric_weights, cb.numeric_weights) = 100)
    /\ [][CbConstructed =>
            /\ cb.text_weights' = cb.text_weights
            /\ cb.numeric_weights' = cb.numeric_weights]_vars

\* C18 witness: a similarity call has been answered by an engine that holds
\* the eleven declared weights.
C18_Witness ==
    /\ CbSimilarityCalled /\ CbConstructed
    /\ Cardinality(DOMAIN cb.text_weights) + Cardinality(DOMAIN cb.numeric_weights) = 11
    /\ cb.text_weights.genres = 20 /\ cb.numeric_weights.vote_count = 3

\* C19: constructing the content engine on a movie table that lacks the
\* column of a declared text or numeric feature fails with ConfigurationError.
C19_ConfigurationError ==
    (ret.op = "cb.__init__"
        /\ \E feature \in DeclaredFeatures :
              feature \notin DOMAIN ret.arg.df[1].texts \cup DOMAIN ret.arg.df[1].numbers)
        => (ret.outcome = "raise" /\ ret.error = "ConfigurationError")

\* The rating records of the engine in every order.
Reorderings(ratings_df) ==
    {[i \in DOMAIN ratings_df |-> ratings_df[p[i]]] :
        p \in InjSeqs(DOMAIN ratings_df, Len(ratings_df))}

\* C20: after prepare_data, movie_mapping maps exactly the items whose rating
\* count is >= min_ratings onto 0..n-1 in ascending order of the item ids (the
\* ids are str and are ordered as str), the same for every order of the
\* rating records; reverse_movie_mapping is its exact inverse, and every
\* mapped id is in all_movie_ids.
C20_MovieMappingSorted ==
    knn # Idle =>
        LET eligible == EligibleItems(knn.ratings_df, knn.min_ratings)
            n == Cardinality(eligible)
        IN /\ DOMAIN knn.movie_mapping = eligible
           /\ {knn.movie_mapping[m] : m \in eligible} = 0..(n - 1)
           /\ \A a, b \in eligible :
                 StrLess(a, b) <=> knn.movie_mapping[a] < knn.movie_mapping[b]
           /\ \A ratings_df \in Reorderings(knn.ratings_df) :
                 KNN_prepare_data([knn EXCEPT !.ratings_df = ratings_df]).movie_mapping
                     = knn.movie_mapping
           /\ DOMAIN knn.reverse_movie_mapping = 0..(n - 1)
           /\ \A m \in eligible : knn.reverse_movie_mapping[knn.movie_mapping[m]] = m
           /\ \A i \in 0..(n - 1) : knn.movie_mapping[knn.reverse_movie_mapping[i]] = i
           /\ eligible \subseteq knn.all_movie_ids

\* C20 witness: '10' is mapped to 0 and '2' to 1, the order of the ids as str,
\* although '2' is rated first.
C20_Witness ==
    /\ knn # Idle
    /\ knn.ratings_df[1].movie_id = ShortIdStr
    /\ DOMAIN knn.movie_mapping = {<<1, 0>>, ShortIdStr}
    /\ knn.movie_mapping[<<1, 0>>] = 0 /\ knn.movie_mapping[ShortIdStr] = 1
    /\ knn.reverse_movie_mapping[1] = ShortIdStr

----------------------------------------------------------------------------
(* Claims about the CF engine's index and the seed of the hybrid lookup *)

\* The ratings the matrix holds for movie m: for each user of the filtered
\* ratings, in ascending order of the user ids, the ratings u gave m, added up.
RatingsRow(ratings_df, users, m) ==
    [c \in 0..(Len(users) - 1) |->
        SumSeq(Column(SelectSeq(ratings_df,
                                LAMBDA r : r.movie_id = m /\ r.user_id = users[c + 1]),
                      "rating"))]

\* C21: after CFMovieRecommender.preprocess, for every eligible movie m the
\* row movie_to_idx[m] of movie_user_mat holds m's ratings, and the movie that
\* recommend looks up for a row position (the key at that position of
\* movie_to_idx) is the movie whose ratings that row holds, for every order of
\* the rating records.
C21_IndexMatchesRow ==
    (cf # Idle /\ ~IsNone(cf.movie_to_idx)) =>
        LET movie_to_idx == Val(cf.movie_to_idx)
            movie_indices == DictKeys(movie_to_idx)
            filtered_ratings ==
                SelectSeq(cf.ratings_df, LAMBDA r : r.movie_id \in Range(movie_indices))
            users == SortedInts(Range(Column(filtered_ratings, "user_id")))
        IN /\ \A m \in Range(movie_indices) :
                 Val(cf.movie_user_mat)[DictGet(movie_to_idx, m)]
                     = RatingsRow(cf.ratings_df, users, m)
           /\ \A i \in DOMAIN movie_indices :
                 Val(cf.movie_user_mat)[i - 1]
                     = RatingsRow(cf.ratings_df, users, movie_indices[i])

\* The users of the ratings the trained matrix is built from, in ascending
\* order, and the cosine of the ratings of two movies over these users.
CfUsers ==
    SortedInts(Range(Column(SelectSeq(cf.ratings_df,
        LAMBDA r : r.movie_id \in Range(DictKeys(Val(cf.movie_to_idx)))), "user_id")))
RatingsCosine(m1, m2) ==
    Cosine(RatingsRow(cf.ratings_df, CfUsers, m1), RatingsRow(cf.ratings_df, CfUsers, m2))

\* C22: every movie row returned by CFMovieRecommender.recommend carries in
\* its 'similarity' column the cosine distance between the ratings of that
\* same movie and the ratings of the queried movie.
C22_SimilarityOfSameMovie ==
    (CfRecommended /\ CfTrained(cf) /\ CfKnown(cf, ret.arg.movie_id)) =>
        \A i \in DOMAIN ret.value :
            CosEq(ret.value[i].similarity.one_minus,
                  RatingsCosine(ret.value[i].movie_id, ret.arg.movie_id))

\* C23: in get_recommendations the title that seeds the collaborative lookup
\* (actual_movie) is the title of the movie the query resolved to on the
\* content side, not the title of one of that movie's recommendations.
C23_SeedIsResolvedMovie ==
    (HyRecommendCalled /\ ~IsNone(ret.locals.actual_movie)) =>
        /\ ~IsNone(ret.arg.found.title)
        /\ Val(ret.locals.actual_movie) = Val(ret.arg.found.title)

----------------------------------------------------------------------------
(* Claims about the content top-N selection *)

\* Row i of the movie table passes the thresholds of the call.
PassesFilter(i) ==
    /\ IsNone(ret.arg.min_rating)
          \/ Row(cb.df, i).numbers.vote_average >= Val(ret.arg.min_rating)
    /\ IsNone(ret.arg.min_votes)
          \/ Row(cb.df, i).numbers.vote_count >= Val(ret.arg.min_votes)

\* The unfiltered and the filtered score vector of the call.
UnfilteredScores == calculate_weighted_similarity(cb, Val(ret.arg.found.movie_idx))
FilteredScores ==
    filtered_scores(cb, UnfilteredScores, ret.arg.min_rating, ret.arg.min_votes)

\* C24: the threshold filter only zeroes scores: the filtered vector has one
\* entry per row of the movie table, 0 for a row that fails min_rating or
\* min_votes and the unfiltered score for a row that passes, and every
\* returned record's similarity_score is the filtered score of the row whose
\* title and id it reports.
C24_FilterOnlyZeroes ==
    CbResolved =>
        /\ DOMAIN FilteredScores = RowIndex(cb.df)
        /\ \A i \in RowIndex(cb.df) :
              FilteredScores[i] = IF PassesFilter(i) THEN UnfilteredScores[i] ELSE 0
        /\ \A k \in DOMAIN ret.value :
              \E i \in RowIndex(cb.df) :
                  /\ Row(cb.df, i).tmdb_id = ret.value[k].tmdb_id
                  /\ Row(cb.df, i).title = ret.value[k].title
                  /\ ret.value[k].similarity_score = FilteredScores[i]

\* C24 witness: under a min_votes threshold a returned record reports a row
\* that fails it, with score 0 although its unfiltered score is positive, next
\* to a record of a passing row that keeps its positive score.
C24_Witness ==
    /\ CbResolved /\ ~IsNone(ret.arg.min_votes)
    /\ \E k, l \in DOMAIN ret.value :
          /\ ~PassesFilter(ret.value[k].index)
          /\ ret.value[k].similarity_score = 0
          /\ UnfilteredScores[ret.value[k].index] > 0
          /\ PassesFilter(ret.value[l].index)
          /\ ret.value[l].similarity_score > 0

\* C25: when fewer than n_recommendations rows other than the query row pass
\* the min_rating / min_votes filter, the list get_movie_recommendations
\* returns is shorter than n_recommendations.
C25_ShorterWhenFewPass ==
    (/\ CbResolved
     /\ Cardinality({i \in RowIndex(cb.df) \ {Val(ret.arg.found.movie_idx)} : PassesFilter(i)})
            < ret.arg.n_recommendations)
        => Len(ret.value) < ret.arg.n_recommendations

\* The operations that answer a query, by the name each call is recorded under.
QueryOps ==
    {"cb.get_movie_recommendations", "cb.calculate_weighted_similarity",
     "cb.find_movie_by_search", "knn.get_movie_recommendations",
     "knn.get_movie_details", "cf.recommend", "cf.find_movie_id",
     "hy.get_recommendations"}

\* C26: no query operation changes built state: across every step that is a
\* query call (content, KNN, CF or hybrid, successful or not) the engines'
\* feature matrices, tables, rating matrices, mappings, statistics and weights
\* are what they were before the call.
C26_QueriesKeepBuiltState ==
    [][(ret'.op \in QueryOps) => (knn' = knn /\ cf' = cf /\ cb' = cb /\ hy' = hy)]_vars

\* C26 witness: a hybrid query has answered with a list after adjust_weights
\* had moved the weights away from their constructed values.
C26_Witness ==
    /\ HyRecommendCalled /\ ret.outcome = "return"
    /\ hy.content_weight # HY_init(hy.enriched_df, hy.movies_df, hy.ratings_df).content_weight
    /\ Len(ret.value) > 0

\* The ratings of item m among all loaded ratings.
AllRatingsOf(m) == Column(SelectSeq(knn.ratings_df, LAMBDA r : r.movie_id = m), "rating")
KnnQueryInMatrix ==
    KnnRecommended /\ standardize_movie_id(knn, ret.arg.movie_id) \in DOMAIN knn.movie_mapping

\* C27: for an item of the trained matrix, get_movie_recommendations returns
\* at most min(n_recommendations, n_neighbors) entries, in order of
\* non-increasing similarity, each a distinct eligible item (one with at least
\* min_ratings ratings, so a row of the matrix) whose mean rating is at least
\* min_rating when min_rating is given, and the mean rating and the rating
\* count reported are the item's statistics over all its ratings.
C27_KnnListWellFormed ==
    KnnQueryInMatrix =>
        /\ Len(ret.value) <= Min2(ret.arg.n_recommendations, knn.n_neighbors)
        /\ \A i \in 1..(Len(ret.value) - 1) :
              CosGeq(ret.value[i].similarity, ret.value[i + 1].similarity)
        /\ \A i, j \in DOMAIN ret.value :
              i # j => ret.value[i].movie_id # ret.value[j].movie_id
        /\ \A i \in DOMAIN ret.value :
              LET rs == AllRatingsOf(ret.value[i].movie_id)
              IN /\ Len(rs) >= knn.min_ratings
                 /\ ret.value[i].movie_id \in DOMAIN knn.movie_mapping
                 /\ ret.value[i].num_ratings = Len(rs)
                 /\ ret.value[i].avg_rating.num * Len(rs) =
                        SumSeq(rs) * ret.value[i].avg_rating.den
                 /\ ~IsNone(ret.arg.min_rating) =>
                        SumSeq(rs) >= Val(ret.arg.min_rating) * Len(rs)

\* C27 witness: with min_rating given, a query for an item of a matrix of
\* three rows returns two entries, the second strictly less similar than the
\* first.
C27_Witness ==
    /\ KnnQueryInMatrix /\ ~IsNone(ret.arg.min_rating)
    /\ Len(ret.value) = 2
    /\ NumRows(knn.movie_user_matrix) = 3
    /\ ~CosGeq(ret.value[2].similarity, ret.value[1].similarity)

====
